---- MODULE Spec2Model ----
(***************************************************************************)
(* Versioned configuration records with audit logging: the Flask backend   *)
(* of the FortiGate configuration wizard (src/backend/app).                *)
(*                                                                         *)
(* The relational store is modelled as committed tables (users, configs,   *)
(* rows, audit).  Each request is handled by a worker with its own         *)
(* SQLAlchemy session: the handler stages its writes, db.session.commit()  *)
(* applies them atomically or fails, AuditLog.log() adds and commits the   *)
(* audit entry, and the response is returned.  Texts are sequences of      *)
(* one-character strings; an optional value is <<>> (None) or <<v>>.       *)
(***************************************************************************)
EXTENDS Integers, Sequences, FiniteSets, Bags, TLC

\* ------------------------------------------------------------------ bounds
MaxUsers == 2
MaxConfigs == 2
MaxVersion == 3
MaxAudit == 5
MaxRepeat == 1
MaxLost == 1
Workers == {1, 2}

\* ------------------------------------------------------------------ texts
None == <<>>
Some(v) == <<v>>
IsNone(o) == o = <<>>
The(o) == o[1]

RECURSIVE LStrip(_)
LStrip(s) == IF s # <<>> /\ Head(s) = " " THEN LStrip(Tail(s)) ELSE s
RECURSIVE RStrip(_)
RStrip(s) == IF s # <<>> /\ s[Len(s)] = " " THEN RStrip(SubSeq(s, 1, Len(s) - 1)) ELSE s
\* str.strip()
Strip(s) == RStrip(LStrip(s))

UpperLetters == <<"A","B","C","D","E","F","G","H","I","J","K","L","M",
                  "N","O","P","Q","R","S","T","U","V","W","X","Y","Z">>
LowerLetters == <<"a","b","c","d","e","f","g","h","i","j","k","l","m",
                  "n","o","p","q","r","s","t","u","v","w","x","y","z">>
DigitChars == {"0","1","2","3","4","5","6","7","8","9"}
Range(f) == {f[i] : i \in DOMAIN f}
IsUpper(c) == c \in Range(UpperLetters)
IsLower(c) == c \in Range(LowerLetters)
IsDigit(c) == c \in DigitChars
IsAlnum(c) == IsUpper(c) \/ IsLower(c) \/ IsDigit(c)
LowerChar(c) ==
    IF IsUpper(c) THEN LowerLetters[CHOOSE i \in DOMAIN UpperLetters : UpperLetters[i] = c]
    ELSE c
\* str.lower()
Lower(s) == [i \in DOMAIN s |-> LowerChar(s[i])]

\* str(n) and int(s) for the identity claim of a token
Str(n) == ToString(n)
IntOf(s) == CHOOSE n \in 0..(MaxUsers + 1) : ToString(n) = s

\* ------------------------------------------------------------- json payload
EmptyDoc == {}
\* json.dumps / json.loads of a data payload (Configuration.set_data, get_data)
Dumps(d) == <<d>>
Loads(t) == IF t = <<>> THEN EmptyDoc ELSE t[1]

\* ------------------------------------------------------------------ tags
\* the position of the first comma of s, 0 when it has none
FirstComma(s) ==
    IF \E i \in DOMAIN s : s[i] = ","
    THEN CHOOSE i \in DOMAIN s : s[i] = "," /\ \A j \in 1..(i - 1) : s[j] # ","
    ELSE 0
RECURSIVE Split(_)
\* str.split(',')
Split(s) ==
    IF FirstComma(s) = 0 THEN <<s>>
    ELSE <<SubSeq(s, 1, FirstComma(s) - 1)>> \o Split(SubSeq(s, FirstComma(s) + 1, Len(s)))
RECURSIVE Join(_)
\* ','.join(list)
Join(l) ==
    IF l = <<>> THEN <<>>
    ELSE IF Len(l) = 1 THEN l[1]
    ELSE l[1] \o <<",">> \o Join(Tail(l))
StripAll(l) == [i \in DOMAIN l |-> Strip(l[i])]
NonEmptyOnly(l) == SelectSeq(l, LAMBDA t : t # <<>>)

\* Configuration.get_tags_list: tags is the stored column, None or a text
\* a variant of the getter without the test for an empty column
GetTagsUnchecked(tags) == IF tags = None THEN <<>> ELSE StripAll(Split(The(tags)))
get_tags_list(tags) ==
    IF tags = None \/ tags = Some(<<>>) THEN <<>> ELSE StripAll(Split(The(tags)))
\* Configuration.set_tags_list: the new value of the column
set_tags_list(tags_list) == Some(Join(NonEmptyOnly(StripAll(tags_list))))

MaxTagLen == 50
\* a tags value of a request body: a JSON list of strings, a JSON string or null
TagList(l) == [kind |-> "list", list |-> l, text |-> <<>>]
TagText(t) == [kind |-> "str", list |-> <<>>, text |-> t]
TagNull == [kind |-> "null", list |-> <<>>, text |-> <<>>]
Falsy(tags) ==
    \/ tags.kind = "null"
    \/ tags.kind = "list" /\ tags.list = <<>>
    \/ tags.kind = "str" /\ tags.text = <<>>
\* validate_tags: TRUE when the tags are accepted
validate_tags(tags) ==
    IF Falsy(tags) THEN TRUE
    ELSE LET l == IF tags.kind = "str" THEN StripAll(Split(tags.text)) ELSE tags.list
         IN \A i \in DOMAIN l : Len(l[i]) <= MaxTagLen
\* the column value update_configuration assigns for an accepted tags value
\* (create_configuration assigns it only when the value is truthy)
TagsColumn(tags) ==
    IF tags.kind = "list" THEN set_tags_list(tags.list)
    ELSE IF tags.kind = "str" THEN Some(tags.text)
    ELSE None

\* ---------------------------------------------------------- config types
ipsec == <<"i","p","s","e","c">>
sdwan == <<"s","d","w","a","n">>
firewall == <<"f","i","r","e","w","a","l","l">>
interface == <<"i","n","t","e","r","f","a","c","e">>
ha == <<"h","a">>
saml == <<"s","a","m","l">>
routing == <<"r","o","u","t","i","n","g">>
dns == <<"d","n","s">>
dhcp == <<"d","h","c","p">>
vpn == <<"v","p","n">>
other == <<"o","t","h","e","r">>
valid_types == {ipsec, sdwan, firewall, interface, ha, saml, routing, dns, dhcp, vpn, other}
validate_config_type(config_type) == config_type \in valid_types

\* ------------------------------------------------------------------ state
VARIABLES
    users,      \* table users: id -> row
    configs,    \* table configurations: id -> row
    versions,   \* table configuration_versions: config_id -> its rows, in insertion order
    audit,      \* table audit_log: the bag of its rows (id and timestamp left out)
    lost,       \* the number of audit entries a store failure kept from being written
    tokens,     \* the JWTs issued so far (held by clients)
    pc,         \* worker -> "idle" | "commit" | "audit" | "done"
    req,        \* worker -> the request it handles
    sess,       \* worker -> its SQLAlchemy session: the staged writes and what follows the commit
    resp,       \* worker -> the response it returns
    snap        \* worker -> the committed tables as they were when its request arrived

vars == <<users, configs, versions, audit, lost, tokens, pc, req, sess, resp, snap>>
store == <<users, configs, versions, audit>>

ConfigIds == 1..MaxConfigs
UserIds == 1..MaxUsers

\* a request body: every key the handlers read, None when the key is absent;
\* extra says that the body holds some other key
NoBody ==
    [name |-> None, config_type |-> None, description |-> None, data |-> None,
     tags |-> None, is_template |-> None, change_description |-> None,
     username |-> None, email |-> None, password |-> None, extra |-> FALSE]
\* "not data" of the handlers: the body is missing or an empty object
Empty(body) == body = NoBody
Has(body, key) == body[key] # None

\* the query string of GET /api/configs: every parameter is optional
NoQuery ==
    [page |-> None, per_page |-> None, config_type |-> None, is_template |-> None,
     search |-> None, tags |-> None]
NoReq ==
    [kind |-> "none", caller |-> 0, id |-> 0, n |-> 0, body |-> NoBody, token |-> "",
     query |-> NoQuery, text |-> <<>>]
NoDetails ==
    [name |-> None, config_type |-> None, data_changed |-> None,
     template_id |-> None, template_name |-> None, reason |-> None]
\* the row AuditLog.log builds
Entry(user_id, action, resource_type, resource_id, details) ==
    [user_id |-> user_id, action |-> action, resource_type |-> resource_type,
     resource_id |-> resource_id, details |-> details]
NoSess ==
    [add_user |-> None, add_config |-> None, add_version |-> None,
     set_config |-> None, del_config |-> None, log |-> None, then |-> "none"]
NoResp == [status |-> 0, error |-> <<>>, message |-> "", data |-> None, errors |-> {}]
NoSnap ==
    [configs |-> <<>>, versions |-> <<>>, audit |-> EmptyBag, users |-> <<>>, tokens |-> {}]

Init ==
    /\ users = <<>>
    /\ configs = <<>>
    /\ versions = [c \in ConfigIds |-> <<>>]
    /\ audit = EmptyBag
    /\ lost = 0
    /\ tokens = {}
    /\ pc = [w \in Workers |-> "idle"]
    /\ req = [w \in Workers |-> NoReq]
    /\ sess = [w \in Workers |-> NoSess]
    /\ resp = [w \in Workers |-> NoResp]
    /\ snap = [w \in Workers |-> NoSnap]

\* ------------------------------------------------------------- responses
success_response(data, message, status_code) ==
    [status |-> status_code, error |-> <<>>, message |-> message, data |-> data, errors |-> {}]
error_response(message, status_code) ==
    [status |-> status_code, error |-> message, message |-> "", data |-> None, errors |-> {}]
validation_error_response(errors) ==
    [status |-> 422, error |-> <<"Validation failed">>, message |-> "", data |-> None,
     errors |-> errors]
not_found_response(resource) == error_response(<<resource, " not found">>, 404)
forbidden_response(message) == error_response(message, 403)
\* handle_database_error: what a SQLAlchemyError escaping a handler becomes
handle_database_error == error_response(<<"Database Error">>, 500)

\* Configuration.to_dict
to_dict(id, c, include_data) ==
    [id |-> id, user_id |-> c.user_id, config_type |-> c.config_type, name |-> c.name,
     description |-> c.description, tags |-> get_tags_list(c.tags),
     is_template |-> c.is_template, version_count |-> Len(versions[id]),
     data |-> IF include_data THEN Some(Loads(c.data_json)) ELSE None]
\* ConfigurationVersion.to_dict
version_to_dict(id, v, include_data) ==
    [config_id |-> id, version |-> v.version, change_description |-> v.change_description,
     created_by |-> v.created_by,
     data |-> IF include_data THEN Some(Loads(v.data_json)) ELSE None]

Max(S) == CHOOSE x \in S : \A y \in S : y <= x
\* a variant of get_next_version_number that skips a number
NextVersionSkips(config_id) ==
    LET vs == {versions[config_id][i].version : i \in DOMAIN versions[config_id]}
    IN (IF vs = {} THEN 0 ELSE Max(vs)) + 2
\* ConfigurationVersion.get_next_version_number
get_next_version_number(config_id) ==
    LET vs == {versions[config_id][i].version : i \in DOMAIN versions[config_id]}
        last_version == IF vs = {} THEN 0 ELSE Max(vs)
    IN last_version + 1

\* ------------------------------------------------------- request handling
\* a literal of the source, kept whole as a one-element text
Lit(string) == <<string>>

AccessTokens == {t \in tokens : t.type = "access"}
RefreshTokens == {t \in tokens : t.type = "refresh"}
\* int(get_jwt_identity())
Identity(tok) == IntOf(tok.sub)

\* the worker is free to take a request
Arrives(w) == pc[w] = "idle"
Snapshot ==
    [configs |-> configs, versions |-> versions, audit |-> audit, users |-> users,
     tokens |-> tokens]

\* the handler returns r without committing anything
Respond(w, r, rq) ==
    /\ pc' = [pc EXCEPT ![w] = "done"]
    /\ req' = [req EXCEPT ![w] = rq]
    /\ resp' = [resp EXCEPT ![w] = r]
    /\ snap' = [snap EXCEPT ![w] = Snapshot]
    /\ UNCHANGED <<users, configs, versions, audit, lost, tokens, sess>>
\* the handler reaches db.session.commit() with the writes s staged in its session
Stage(w, s, rq) ==
    /\ pc' = [pc EXCEPT ![w] = "commit"]
    /\ req' = [req EXCEPT ![w] = rq]
    /\ sess' = [sess EXCEPT ![w] = s]
    /\ snap' = [snap EXCEPT ![w] = Snapshot]
    /\ UNCHANGED <<users, configs, versions, audit, lost, tokens, resp>>
\* the handler reaches AuditLog.log() with nothing to commit before it
StageLog(w, s, rq) ==
    /\ pc' = [pc EXCEPT ![w] = "audit"]
    /\ req' = [req EXCEPT ![w] = rq]
    /\ sess' = [sess EXCEPT ![w] = s]
    /\ snap' = [snap EXCEPT ![w] = Snapshot]
    /\ UNCHANGED <<users, configs, versions, audit, lost, tokens, resp>>

\* a text value (a data payload) that is present and not empty
Truthy(o) == o # None /\ The(o) # <<>>
\* a variant that takes every payload for present
TruthyAny(o) == TRUE
TruthyDoc(o) == o # None /\ The(o) # EmptyDoc
OrEmpty(o) == IF o = None THEN <<>> ELSE The(o)

\* a variant of the ownership check that lets every caller pass
OwnsAny(user_id, config_id) == TRUE
\* the ownership check of the handlers: config.user_id == user_id
Owns(user_id, config_id) == configs[config_id].user_id = user_id

\* a variant of the validation that stops at the first field that fails
CreateErrorsFirst(config_type, tags) ==
    IF ~validate_config_type(config_type) THEN {"config_type"}
    ELSE IF ~validate_tags(tags) THEN {"tags"} ELSE {}
\* create_configuration: the errors map of the field validation
CreateErrors(config_type, tags) ==
    (IF validate_config_type(config_type) THEN {} ELSE {"config_type"})
    \cup (IF validate_tags(tags) THEN {} ELSE {"tags"})

\* create_configuration, from the request to db.session.commit()
CreateOutcome(user_id, body) ==
    IF Empty(body) THEN [r |-> error_response(Lit("No data provided"), 400)]
    ELSE IF ~Truthy(body.name)
    THEN [r |-> error_response(Lit("Configuration name is required"), 400)]
    ELSE IF ~Truthy(body.config_type)
    THEN [r |-> error_response(Lit("Configuration type is required"), 400)]
    ELSE IF ~TruthyDoc(body.data)
    THEN [r |-> error_response(Lit("Configuration data is required"), 400)]
    ELSE
    LET name == Strip(The(body.name))
        config_type == Strip(The(body.config_type))
        description == Strip(OrEmpty(body.description))
        config_data == The(body.data)
        tags == IF body.tags = None THEN TagList(<<>>) ELSE The(body.tags)
        is_template == IF body.is_template = None THEN FALSE ELSE The(body.is_template)
        errors == CreateErrors(config_type, tags)
    IN IF errors # {} THEN [r |-> validation_error_response(errors)]
       ELSE [s |-> [NoSess EXCEPT
                !.add_config = Some([user_id |-> user_id, config_type |-> config_type,
                                     name |-> name, description |-> description,
                                     is_template |-> is_template,
                                     data_json |-> Dumps(config_data),
                                     tags |-> IF Falsy(tags) THEN None ELSE TagsColumn(tags)]),
                !.add_version = Some([version |-> 1, data_json |-> Dumps(config_data),
                                      change_description |-> Lit("Initial version"),
                                      created_by |-> user_id]),
                !.log = Some(Entry(user_id, "create", "configuration", None,
                                   [NoDetails EXCEPT !.name = Some(name),
                                                     !.config_type = Some(config_type)])),
                !.then = "create"]]

\* a variant that ignores the change_description of the request
ChangeDescriptionDefault(body) == Lit("Configuration updated")
\* data.get('change_description', 'Configuration updated')
ChangeDescription(body) ==
    IF Has(body, "change_description") THEN The(body.change_description)
    ELSE Lit("Configuration updated")

\* the columns of row that differ in changed: what the UPDATE statement sets
\* a variant that leaves the data column of the record out of the UPDATE
ChangesWithoutData(row, changed) ==
    LET keys == {k \in DOMAIN row : changed[k] # row[k]} \ {"data_json"}
    IN [k \in keys |-> changed[k]]
Changes(row, changed) ==
    LET keys == {k \in DOMAIN row : changed[k] # row[k]}
    IN [k \in keys |-> changed[k]]
\* update_configuration, from the request to db.session.commit()
UpdateOutcome(user_id, config_id, body) ==
    IF Empty(body) THEN [r |-> error_response(Lit("No data provided"), 400)]
    ELSE IF config_id \notin DOMAIN configs THEN [r |-> not_found_response("Configuration")]
    ELSE IF ~Owns(user_id, config_id)
    THEN [r |-> forbidden_response(
                  Lit("You do not have permission to modify this configuration"))]
    ELSE
    LET config == configs[config_id]
        c1 == IF Has(body, "name")
              THEN [config EXCEPT !.name = Strip(The(body.name))] ELSE config
        c2 == IF Has(body, "description")
              THEN [c1 EXCEPT !.description = Strip(The(body.description))] ELSE c1
        c3 == IF Has(body, "tags")
              THEN [c2 EXCEPT !.tags = TagsColumn(The(body.tags))] ELSE c2
        c4 == IF Has(body, "is_template")
              THEN [c3 EXCEPT !.is_template = The(body.is_template)] ELSE c3
        c5 == IF Has(body, "data")
              THEN [c4 EXCEPT !.data_json = Dumps(The(body.data))] ELSE c4
        data_changed == Has(body, "data")
        version == [version |-> get_next_version_number(config_id),
                    data_json |-> Dumps(The(body.data)),
                    change_description |-> ChangeDescription(body),
                    created_by |-> user_id]
    IN IF Has(body, "tags") /\ ~validate_tags(The(body.tags))
       THEN [r |-> validation_error_response({"tags"}),
             d |-> [NoSess EXCEPT
                      !.set_config = IF c2 = config THEN None
                                     ELSE Some([id |-> config_id, set |-> Changes(config, c2)])]]
       ELSE [s |-> [NoSess EXCEPT
                !.set_config = IF c5 = config THEN None
                               ELSE Some([id |-> config_id, set |-> Changes(config, c5)]),
                !.add_version = IF data_changed THEN Some(version) ELSE None,
                !.log = Some(Entry(user_id, "update", "configuration", Some(config_id),
                                   [NoDetails EXCEPT !.name = Some(c5.name),
                                                     !.data_changed = Some(data_changed)])),
                !.then = "update"]]

\* delete_configuration, from the request to db.session.commit()
DeleteOutcome(user_id, config_id) ==
    IF config_id \notin DOMAIN configs THEN [r |-> not_found_response("Configuration")]
    ELSE IF ~Owns(user_id, config_id)
    THEN [r |-> forbidden_response(
                  Lit("You do not have permission to delete this configuration"))]
    ELSE LET config_name == configs[config_id].name
         IN [s |-> [NoSess EXCEPT
                !.del_config = Some(config_id),
                !.log = Some(Entry(user_id, "delete", "configuration", Some(config_id),
                                   [NoDetails EXCEPT !.name = Some(config_name)])),
                !.then = "delete"]]

\* get_configuration
GetOutcome(user_id, config_id) ==
    IF config_id \notin DOMAIN configs THEN not_found_response("Configuration")
    ELSE IF ~Owns(user_id, config_id)
    THEN forbidden_response(Lit("You do not have permission to access this configuration"))
    ELSE success_response(Some(to_dict(config_id, configs[config_id], TRUE)), "", 200)

\* Configuration.versions: the rows of a record, highest version first
RECURSIVE Descending(_)
Descending(rows) ==
    IF rows = <<>> THEN <<>>
    ELSE LET i == CHOOSE i \in DOMAIN rows : \A j \in DOMAIN rows :
                      rows[j].version < rows[i].version \/ (rows[j].version = rows[i].version /\ i <= j)
         IN <<rows[i]>> \o Descending([k \in 1..(Len(rows) - 1) |->
                                           IF k < i THEN rows[k] ELSE rows[k + 1]])
\* get_configuration_versions
VersionsOutcome(user_id, config_id) ==
    IF config_id \notin DOMAIN configs THEN not_found_response("Configuration")
    ELSE IF ~Owns(user_id, config_id)
    THEN forbidden_response(Lit("You do not have permission to access this configuration"))
    ELSE LET rows == Descending(versions[config_id])
         IN success_response(
                Some([i \in DOMAIN rows |-> version_to_dict(config_id, rows[i], FALSE)]),
                "", 200)
\* get_configuration_version
VersionOutcome(user_id, config_id, version_number) ==
    IF config_id \notin DOMAIN configs THEN not_found_response("Configuration")
    ELSE IF ~Owns(user_id, config_id)
    THEN forbidden_response(Lit("You do not have permission to access this configuration"))
    ELSE LET rows == SelectSeq(versions[config_id], LAMBDA v : v.version = version_number)
         IN IF rows = <<>> THEN not_found_response("Version")
            ELSE success_response(Some(version_to_dict(config_id, rows[1], TRUE)), "", 200)

\* the blueprints create_app registers (register_blueprints)
RegisteredBlueprints == {"auth", "configs"}
\* Flask's answer for a URL no registered blueprint routes (not_found_error)
NoRoute == error_response(Lit("Not Found"), 404)

\* create_from_template, from the request to db.session.commit()
TemplateOutcome(user_id, template_id) ==
    IF template_id \notin DOMAIN configs THEN [r |-> not_found_response("Template")]
    ELSE IF ~configs[template_id].is_template
    THEN [r |-> error_response(Lit("This configuration is not a template"), 400)]
    ELSE
    LET template == configs[template_id]
        data_json == Dumps(Loads(template.data_json))
    IN [s |-> [NoSess EXCEPT
            !.add_config = Some([user_id |-> user_id, config_type |-> template.config_type,
                                 name |-> template.name \o Lit(" - New"),
                                 description |-> Lit("Created from template: ") \o template.name,
                                 is_template |-> FALSE,
                                 data_json |-> data_json,
                                 tags |-> IF template.tags = None \/ template.tags = Some(<<>>)
                                          THEN None ELSE template.tags]),
            !.add_version = Some([version |-> 1, data_json |-> data_json,
                                  change_description |->
                                      Lit("Created from template ") \o template.name,
                                  created_by |-> user_id]),
            !.log = Some(Entry(user_id, "create_from_template", "configuration", None,
                               [NoDetails EXCEPT !.template_id = Some(template_id),
                                                 !.template_name = Some(template.name)])),
            !.then = "create"]]

\* ------------------------------------------------------------------ users
\* werkzeug's generate_password_hash and check_password_hash
generate_password_hash(password) == <<"hash", password>>
\* a variant of the check that accepts every password
AnyPassword(password_hash, password) == TRUE
check_password_hash(password_hash, password) == password_hash = <<"hash", password>>

MinUsernameLen == 3
MaxUsernameLen == 80
MinPasswordLen == 8
\* validate_username: the error, None when valid
validate_username(username) ==
    IF Len(username) < MinUsernameLen
    THEN Some("Username must be at least 3 characters long")
    ELSE IF Len(username) > MaxUsernameLen
    THEN Some("Username must be less than 80 characters")
    ELSE LET rest == SelectSeq(username, LAMBDA c : c # "_" /\ c # "-")
         IN IF rest = <<>> \/ \E i \in DOMAIN rest : ~IsAlnum(rest[i])
            THEN Some("Username can only contain letters, numbers, hyphens, and underscores")
            ELSE None
\* validate_email: ^[a-zA-Z0-9._%+-]+@[a-zA-Z0-9.-]+\.[a-zA-Z]{2,}$
validate_email(email) ==
    LET local(c) == IsAlnum(c) \/ c \in {".", "_", "%", "+", "-"}
        domain(c) == IsAlnum(c) \/ c \in {".", "-"}
        letter(c) == IsUpper(c) \/ IsLower(c)
        matches == \E i, j \in DOMAIN email :
            /\ 1 < i /\ i + 1 < j /\ j + 2 <= Len(email)
            /\ email[i] = "@" /\ email[j] = "."
            /\ \A k \in 1..(i - 1) : local(email[k])
            /\ \A k \in (i + 1)..(j - 1) : domain(email[k])
            /\ \A k \in (j + 1)..Len(email) : letter(email[k])
    IN IF matches THEN None ELSE Some("Invalid email format")
\* validate_password
validate_password(password) ==
    IF Len(password) < MinPasswordLen
    THEN Some("Password must be at least 8 characters long")
    ELSE IF ~\E i \in DOMAIN password : IsDigit(password[i])
    THEN Some("Password must contain at least one number")
    ELSE IF ~\E i \in DOMAIN password : IsUpper(password[i])
    THEN Some("Password must contain at least one uppercase letter")
    ELSE IF ~\E i \in DOMAIN password : IsLower(password[i])
    THEN Some("Password must contain at least one lowercase letter")
    ELSE None

\* User.to_dict(include_email=True)
user_to_dict(id, u) ==
    [id |-> id, username |-> u.username, is_admin |-> u.is_admin, email |-> u.email,
     is_active |-> u.is_active]

\* a variant of the validation that stops at the first field that fails
RegisterErrorsFirst(username, email, password) ==
    IF validate_username(username) # None THEN {"username"}
    ELSE IF validate_email(email) # None THEN {"email"}
    ELSE IF validate_password(password) # None THEN {"password"} ELSE {}
\* register: the errors map of the field validation
RegisterErrors(username, email, password) ==
    (IF validate_username(username) = None THEN {} ELSE {"username"})
    \cup (IF validate_email(email) = None THEN {} ELSE {"email"})
    \cup (IF validate_password(password) = None THEN {} ELSE {"password"})

\* a variant of the lookup that compares usernames only
ExistingByName(username, email) == {id \in DOMAIN users : users[id].username = username}
\* User.query.filter((User.username == username) | (User.email == email)): the rows
Existing(username, email) ==
    {id \in DOMAIN users : users[id].username = username \/ users[id].email = email}

\* register, from the request to db.session.commit(): the possible outcomes
\* (the lookup .first() has no ORDER BY: any matching row may come first)
RegisterOutcomes(body) ==
    IF Empty(body) THEN {[r |-> error_response(Lit("No data provided"), 400)]}
    ELSE IF ~Truthy(body.username) \/ ~Truthy(body.email) \/ ~Truthy(body.password)
    THEN {[r |-> error_response(Lit("Missing required fields"), 400)]}
    ELSE
    LET username == Strip(The(body.username))
        email == Lower(Strip(The(body.email)))
        password == The(body.password)
        errors == RegisterErrors(username, email, password)
        existing == Existing(username, email)
    IN IF errors # {} THEN {[r |-> validation_error_response(errors)]}
       ELSE IF existing # {}
       THEN {[r |-> IF users[id].username = username
                    THEN error_response(Lit("Username already exists"), 409)
                    ELSE error_response(Lit("Email already exists"), 409)] : id \in existing}
       ELSE {[s |-> [NoSess EXCEPT
                !.add_user = Some([username |-> username, email |-> email,
                                   password_hash |-> generate_password_hash(password),
                                   is_active |-> TRUE, is_admin |-> FALSE]),
                !.log = Some(Entry(0, "register", "user", None, NoDetails)),
                !.then = "register"]]}

\* login, from the request to AuditLog.log(): the possible outcomes
LoginOutcomes(body) ==
    IF Empty(body) THEN {[r |-> error_response(Lit("No data provided"), 400)]}
    ELSE
    LET username_or_email == Strip(OrEmpty(body.username))
        password == OrEmpty(body.password)
        found == {id \in DOMAIN users :
                     \/ users[id].username = username_or_email
                     \/ users[id].email = Lower(username_or_email)}
    IN IF username_or_email = <<>> \/ password = <<>>
       THEN {[r |-> error_response(Lit("Username and password are required"), 400)]}
       ELSE IF found = {}
       THEN {[r |-> error_response(Lit("Invalid username or password"), 401)]}
       ELSE {IF ~check_password_hash(users[id].password_hash, password)
             THEN [s |-> [NoSess EXCEPT
                      !.log = Some(Entry(id, "login_failed", "user", Some(id),
                                   [NoDetails EXCEPT !.reason = Some("invalid_password")])),
                      !.then = "login_failed"]]
             ELSE IF ~users[id].is_active
             THEN [r |-> error_response(Lit("Account is inactive"), 401)]
             ELSE [s |-> [NoSess EXCEPT
                      !.log = Some(Entry(id, "login", "user", Some(id), NoDetails)),
                      !.then = "login"]]
            : id \in found}

\* create_access_token / create_refresh_token(identity=...)
create_access_token(identity) == [type |-> "access", sub |-> identity]
create_refresh_token(identity) == [type |-> "refresh", sub |-> identity]

\* invalid_token_callback: the answer to a token of the wrong class
InvalidToken == error_response(Lit("Invalid Token"), 401)
\* a variant of refresh that does not look the user up
RefreshAlways(tok) ==
    success_response(Some([access_token |-> create_access_token(tok.sub)]),
                     "Token refreshed successfully", 200)
\* refresh
RefreshOutcome(tok) ==
    LET user_id_str == tok.sub
        user_id == IntOf(user_id_str)
    IN IF user_id \notin DOMAIN users \/ ~users[user_id].is_active
       THEN error_response(Lit("Invalid or inactive user"), 401)
       ELSE success_response(Some([access_token |-> create_access_token(user_id_str)]),
                             "Token refreshed successfully", 200)

\* logout, from the request to AuditLog.log()
LogoutOutcome(user_id) ==
    [s |-> [NoSess EXCEPT
        !.log = Some(Entry(user_id, "logout", "user", Some(user_id), NoDetails)),
        !.then = "logout"]]

\* ------------------------------------------------------------ the inputs
alice == <<"a","l","i","c","e">>
bob == <<"b","o","b">>
alice_mail == <<"A","@","x",".","i","o">>
bob_mail == <<"b","@","x",".","i","o">>
good_password == <<"P","a","s","s","w","0","r","d">>
weak_password == <<"p","a","s","s">>
Creds(u, e, p) ==
    [NoBody EXCEPT !.username = Some(u), !.email = Some(e), !.password = Some(p)]
RegisterBodies ==
    {Creds(alice, alice_mail, good_password),
     Creds(<<" ">> \o bob, bob_mail, good_password),
     Creds(<<"a","l">>, <<"a","@","x">>, weak_password),
     Creds(alice, <<"a","@","x">>, <<"p","a","s","s","w","o","r","d","1">>),
     NoBody}
LoginBodies ==
    {[NoBody EXCEPT !.username = Some(alice), !.password = Some(good_password)],
     [NoBody EXCEPT !.username = Some(Lower(alice_mail)), !.password = Some(weak_password)],
     [NoBody EXCEPT !.username = Some(bob), !.password = Some(good_password)],
     [NoBody EXCEPT !.username = Some(<<"e","v","e">>), !.password = Some(good_password)],
     [NoBody EXCEPT !.username = Some(bob)],
     NoBody}

D1 == {<<"k", "v">>}
D2 == {<<"k", "v2">>}
LongTag == [i \in 1..(MaxTagLen + 1) |-> "a"]
CreateBodies ==
    {[NoBody EXCEPT !.name = Some(<<"n">>), !.config_type = Some(ipsec), !.data = Some(D1),
                    !.tags = Some(TagList(<<<<"t">>, <<" ", "u">>>>))],
     [NoBody EXCEPT !.name = Some(<<" ", "m">>), !.config_type = Some(other),
                    !.data = Some(D2), !.is_template = Some(TRUE),
                    !.description = Some(<<"d">>)],
     [NoBody EXCEPT !.name = Some(<<"n">>), !.config_type = Some(<<"x">>),
                    !.data = Some(D1), !.tags = Some(TagList(<<LongTag>>))],
     [NoBody EXCEPT !.name = Some(<<"n">>), !.config_type = Some(<<"x">>),
                    !.data = Some(D1)],
     [NoBody EXCEPT !.name = Some(<<"n">>), !.config_type = Some(ipsec), !.data = Some(D1),
                    !.tags = Some(TagText(<<"t", ",">> \o LongTag))],
     [NoBody EXCEPT !.name = Some(<<>>), !.config_type = Some(<<"x">>)],
     [NoBody EXCEPT !.name = Some(<<"n">>), !.tags = Some(TagList(<<LongTag>>))],
     [NoBody EXCEPT !.name = Some(<<"n">>), !.config_type = Some(<<"x">>),
                    !.data = Some(EmptyDoc)],
     NoBody}
Patches ==
    {[NoBody EXCEPT !.data = Some(D2)],
     [NoBody EXCEPT !.data = Some(D1), !.change_description = Some(<<"c">>),
                    !.name = Some(<<"m", " ">>)],
     [NoBody EXCEPT !.description = Some(<<"e">>), !.tags = Some(TagText(<<"t", ",", "v">>))],
     [NoBody EXCEPT !.is_template = Some(TRUE)],
     [NoBody EXCEPT !.name = Some(<<"z">>), !.tags = Some(TagList(<<LongTag>>))],
     [NoBody EXCEPT !.extra = TRUE],
     NoBody}

\* ------------------------------------------------------------ the requests
Request(kind, caller, id, n, body) ==
    [kind |-> kind, caller |-> caller, id |-> id, n |-> n, body |-> body, token |-> "",
     query |-> NoQuery, text |-> <<>>]
\* the handler returns r and leaves the assignments d it made uncommitted in the session
RespondDirty(w, r, d, rq) ==
    /\ pc' = [pc EXCEPT ![w] = "done"]
    /\ req' = [req EXCEPT ![w] = rq]
    /\ resp' = [resp EXCEPT ![w] = r]
    /\ sess' = [sess EXCEPT ![w] = d]
    /\ snap' = [snap EXCEPT ![w] = Snapshot]
    /\ UNCHANGED <<users, configs, versions, audit, lost, tokens>>
Handle(w, outcome, rq) ==
    IF "d" \in DOMAIN outcome THEN RespondDirty(w, outcome.r, outcome.d, rq)
    ELSE IF "r" \in DOMAIN outcome THEN Respond(w, outcome.r, rq)
    ELSE Stage(w, outcome.s, rq)

\* the id the store gives the next row of configurations (SQLite rowid: max + 1)
NewConfigId == IF DOMAIN configs = {} THEN 1 ELSE Max(DOMAIN configs) + 1
Inserting == {w \in Workers : sess[w].add_config # None}
\* the bounds leave room for the rows the outcome stages
Logging == {w \in Workers : pc[w] \in {"commit", "audit"}}
Room(outcome) ==
    "s" \in DOMAIN outcome =>
        /\ BagCardinality(audit) + lost + Cardinality(Logging) < MaxAudit
        /\ The(outcome.s.log).action \in {"login", "login_failed", "logout"} =>
              CopiesIn(The(outcome.s.log), audit) < MaxRepeat
        /\ outcome.s.add_user # None =>
              Len(users) + Cardinality({v \in Workers : sess[v].add_user # None}) < MaxUsers
        /\ outcome.s.add_config # None =>
              NewConfigId + Cardinality(Inserting) <= MaxConfigs
        /\ outcome.s.add_version # None => The(outcome.s.add_version).version <= MaxVersion

\* POST /api/auth/register
register(w, bodies) ==
    \E body \in bodies : \E outcome \in RegisterOutcomes(body) :
        /\ Arrives(w)
        /\ Room(outcome)
        /\ Handle(w, outcome, Request("register", 0, 0, 0, body))

\* POST /api/auth/login
login(w, bodies) ==
    \E body \in bodies : \E outcome \in LoginOutcomes(body) :
        /\ Arrives(w)
        /\ Room(outcome)
        /\ IF "r" \in DOMAIN outcome
           THEN Respond(w, outcome.r, Request("login", 0, 0, 0, body))
           ELSE StageLog(w, outcome.s, Request("login", 0, 0, 0, body))

\* POST /api/auth/refresh: jwt_required(refresh=True) lets only a refresh token through
\* to the handler; any other token is answered by invalid_token_callback
refresh(w) ==
    \E tok \in tokens :
        LET r == IF tok.type = "refresh" THEN RefreshOutcome(tok) ELSE InvalidToken
        IN /\ Arrives(w)
           /\ pc' = [pc EXCEPT ![w] = "done"]
           /\ req' = [req EXCEPT ![w] =
                        [Request("refresh", Identity(tok), 0, 0, NoBody) EXCEPT !.token = tok.type]]
           /\ resp' = [resp EXCEPT ![w] = r]
           /\ snap' = [snap EXCEPT ![w] = Snapshot]
           /\ tokens' = IF r.status = 200 THEN tokens \cup {The(r.data).access_token}
                        ELSE tokens
           /\ UNCHANGED <<users, configs, versions, audit, lost, sess>>

\* POST /api/auth/logout
logout(w) ==
    \E tok \in AccessTokens :
        /\ Arrives(w)
        /\ Room(LogoutOutcome(Identity(tok)))
        /\ StageLog(w, LogoutOutcome(Identity(tok)).s,
                    Request("logout", Identity(tok), 0, 0, NoBody))

\* POST /api/configs
create_configuration(w, bodies) ==
    \E tok \in AccessTokens, body \in bodies :
        /\ Arrives(w)
        /\ Room(CreateOutcome(Identity(tok), body))
        /\ Handle(w, CreateOutcome(Identity(tok), body),
                  Request("create", Identity(tok), 0, 0, body))

\* GET /api/configs/<config_id>
get_configuration(w) ==
    \E tok \in AccessTokens, config_id \in ConfigIds :
        /\ Arrives(w)
        /\ Respond(w, GetOutcome(Identity(tok), config_id),
                   Request("get", Identity(tok), config_id, 0, NoBody))

\* PUT /api/configs/<config_id>
update_configuration(w, patches) ==
    \E tok \in AccessTokens, config_id \in ConfigIds, body \in patches :
        /\ Arrives(w)
        /\ Room(UpdateOutcome(Identity(tok), config_id, body))
        /\ Handle(w, UpdateOutcome(Identity(tok), config_id, body),
                  Request("update", Identity(tok), config_id, 0, body))

\* DELETE /api/configs/<config_id>
delete_configuration(w) ==
    \E tok \in AccessTokens, config_id \in ConfigIds :
        /\ Arrives(w)
        /\ Room(DeleteOutcome(Identity(tok), config_id))
        /\ Handle(w, DeleteOutcome(Identity(tok), config_id),
                  Request("delete", Identity(tok), config_id, 0, NoBody))

\* GET /api/configs/<config_id>/versions
get_configuration_versions(w) ==
    \E tok \in AccessTokens, config_id \in ConfigIds :
        /\ Arrives(w)
        /\ Respond(w, VersionsOutcome(Identity(tok), config_id),
                   Request("list_versions", Identity(tok), config_id, 0, NoBody))

\* GET /api/configs/<config_id>/versions/<version_number>
get_configuration_version(w) ==
    \E tok \in AccessTokens, config_id \in ConfigIds, version_number \in 1..MaxVersion :
        /\ Arrives(w)
        /\ Respond(w, VersionOutcome(Identity(tok), config_id, version_number),
                   Request("get_version", Identity(tok), config_id, version_number, NoBody))

\* POST /api/templates/<template_id>/create
create_from_template(w) ==
    \E tok \in AccessTokens, template_id \in ConfigIds :
        /\ Arrives(w)
        /\ "templates" \in RegisteredBlueprints => Room(TemplateOutcome(Identity(tok), template_id))
        /\ Handle(w, IF "templates" \in RegisteredBlueprints
                     THEN TemplateOutcome(Identity(tok), template_id)
                     ELSE [r |-> NoRoute],
                  Request("create_from_template", Identity(tok), template_id, 0, NoBody))

\* --------------------------------------------------------------- the store
\* a store without the constraint
NoConstraint(config_id, version) == TRUE
\* UniqueConstraint('config_id', 'version'): the row may be inserted
unique_config_version(config_id, version) ==
    \A i \in DOMAIN versions[config_id] : versions[config_id][i].version # version
\* users.username and users.email are unique=True
unique_user(u) ==
    \A id \in DOMAIN users : users[id].username # u.username /\ users[id].email # u.email

\* the flush of the session s of a request for record id meets no constraint of the
\* store: unique rows, and every UPDATE and DELETE finds its row
Accepts(s, id) ==
    /\ s.add_user # None => unique_user(The(s.add_user))
    /\ s.set_config # None => The(s.set_config).id \in DOMAIN configs
    /\ s.del_config # None => The(s.del_config) \in DOMAIN configs
    /\ (s.add_version # None /\ s.add_config = None) =>
           unique_config_version(id, The(s.add_version).version)

\* a variant of the UPDATE that resets the columns it is not given
MergeDefaults(row, set) ==
    [k \in DOMAIN row |-> IF k \in DOMAIN set THEN set[k]
                          ELSE IF k = "is_template" THEN FALSE
                          ELSE IF k = "description" THEN <<>> ELSE row[k]]
\* a variant of the DELETE that removes no row
Kept(f, id) == f
\* the UPDATE of a row: the columns of set take their new values
Merge(row, set) == [k \in DOMAIN row |-> IF k \in DOMAIN set THEN set[k] ELSE row[k]]
\* the DELETE of the row id
Without(f, id) == [k \in DOMAIN f \ {id} |-> f[k]]
\* the table configurations after the session s is committed
CommitConfigs(s) ==
    LET added == IF s.add_config # None
                 THEN configs @@ (NewConfigId :> The(s.add_config)) ELSE configs
        set == IF s.set_config # None
               THEN [added EXCEPT ![The(s.set_config).id] = Merge(@, The(s.set_config).set)]
               ELSE added
    IN IF s.del_config # None THEN Without(set, The(s.del_config)) ELSE set
\* a variant of CommitVersions without the cascade from a record to its versions
CommitVersionsNoCascade(s, id) ==
    LET target == IF s.add_config # None THEN NewConfigId ELSE id
    IN IF s.add_version # None
       THEN [versions EXCEPT ![target] = Append(@, The(s.add_version))]
       ELSE versions
\* a variant of CommitVersions in which a new version overwrites the data of the earlier
\* versions of its record
CommitVersionsRewrite(s, id) ==
    LET target == IF s.add_config # None THEN NewConfigId ELSE id
        added == IF s.add_version # None
                 THEN [versions EXCEPT ![target] =
                          Append([i \in DOMAIN @ |->
                                     [@[i] EXCEPT !.data_json = The(s.add_version).data_json]],
                                 The(s.add_version))]
                 ELSE versions
    IN IF s.del_config # None THEN [added EXCEPT ![The(s.del_config)] = <<>>] ELSE added
\* the table configuration_versions after the session s of a request for record id is
\* committed; deleting a record deletes its versions (cascade='all, delete-orphan')
CommitVersions(s, id) ==
    LET target == IF s.add_config # None THEN NewConfigId ELSE id
        added == IF s.add_version # None
                 THEN [versions EXCEPT ![target] = Append(@, The(s.add_version))]
                 ELSE versions
    IN IF s.del_config # None THEN [added EXCEPT ![The(s.del_config)] = <<>>] ELSE added

\* the audit entry of the session once the ids of the inserted rows are known
Resolved(s) ==
    IF s.add_user # None
    THEN Some([The(s.log) EXCEPT !.user_id = Len(users) + 1,
                                 !.resource_id = Some(Len(users) + 1)])
    ELSE IF s.add_config # None
    THEN Some([The(s.log) EXCEPT !.resource_id = Some(NewConfigId)])
    ELSE s.log

\* db.session.commit() of the handler: all staged writes persist, or none does and the
\* SQLAlchemyError becomes a 500 response
Commit(w) ==
    /\ pc[w] = "commit"
    /\ IF Accepts(sess[w], req[w].id)
       THEN /\ users' = IF sess[w].add_user # None
                        THEN Append(users, The(sess[w].add_user)) ELSE users
            /\ configs' = CommitConfigs(sess[w])
            /\ versions' = CommitVersions(sess[w], req[w].id)
            /\ sess' = [sess EXCEPT ![w] = [NoSess EXCEPT !.log = Resolved(sess[w]),
                                                          !.then = sess[w].then]]
            /\ pc' = [pc EXCEPT ![w] = "audit"]
            /\ UNCHANGED <<audit, lost, tokens, req, resp, snap>>
       ELSE /\ pc' = [pc EXCEPT ![w] = "done"]
            /\ resp' = [resp EXCEPT ![w] = handle_database_error]
            /\ sess' = [sess EXCEPT ![w] = NoSess]
            /\ UNCHANGED <<users, configs, versions, audit, lost, tokens, req, snap>>

\* the store fails a commit (of the handler or of AuditLog.log): the transaction is
\* rolled back and the SQLAlchemyError becomes a 500 response
StoreFailure(w) ==
    /\ pc[w] \in {"commit", "audit"}
    /\ pc[w] = "audit" => lost < MaxLost
    /\ lost' = IF pc[w] = "audit" THEN lost + 1 ELSE lost
    /\ pc' = [pc EXCEPT ![w] = "done"]
    /\ resp' = [resp EXCEPT ![w] = handle_database_error]
    /\ sess' = [sess EXCEPT ![w] = NoSess]
    /\ UNCHANGED <<users, configs, versions, audit, tokens, req, snap>>

\* what the handler returns once its audit entry e is written
FinalResponse(then, e, id) ==
    IF then \in {"create", "create_from_template", "update"}
    THEN LET config_id == IF then = "update" THEN id ELSE The(e.resource_id)
         IN IF config_id \notin DOMAIN configs THEN handle_database_error
            ELSE success_response(
                     Some(to_dict(config_id, configs[config_id], TRUE)),
                     IF then = "create" THEN "Configuration created successfully"
                     ELSE IF then = "update" THEN "Configuration updated successfully"
                     ELSE "Configuration created from template",
                     IF then = "update" THEN 200 ELSE 201)
    ELSE IF then = "delete"
    THEN success_response(None, "Configuration deleted successfully", 200)
    ELSE IF then = "register"
    THEN success_response(Some(user_to_dict(e.user_id, users[e.user_id])),
                          "User registered successfully", 201)
    ELSE IF then = "login"
    THEN success_response(
             Some([user |-> user_to_dict(e.user_id, users[e.user_id]),
                   access_token |-> create_access_token(Str(e.user_id)),
                   refresh_token |-> create_refresh_token(Str(e.user_id))]),
             "Login successful", 200)
    ELSE IF then = "login_failed"
    THEN error_response(Lit("Invalid username or password"), 401)
    ELSE success_response(None, "Logout successful", 200)

\* a variant of the insert that writes the entry twice
LoggedTwice(log, e) == log (+) SetToBag({e}) (+) SetToBag({e})
\* a variant of the insert that overwrites the table
LoggedOver(log, e) == SetToBag({e})
\* db.session.add(log_entry); db.session.commit() of AuditLog.log
Logged(log, e) == log (+) SetToBag({e})

\* AuditLog.log(): the entry is added and committed, then the handler returns
AuditLog_log(w) ==
    /\ pc[w] = "audit"
    /\ audit' = Logged(audit, The(sess[w].log))
    /\ resp' = [resp EXCEPT ![w] = FinalResponse(sess[w].then, The(sess[w].log), req[w].id)]
    /\ tokens' = IF sess[w].then = "login"
                 THEN tokens \cup {create_access_token(Str(The(sess[w].log).user_id)),
                                   create_refresh_token(Str(The(sess[w].log).user_id))}
                 ELSE tokens
    /\ pc' = [pc EXCEPT ![w] = "done"]
    /\ sess' = [sess EXCEPT ![w] = NoSess]
    /\ UNCHANGED <<users, configs, versions, lost, req, snap>>

\* a variant in which the session outlives the request
TeardownKeepsSession(w) ==
    /\ pc[w] = "done"
    /\ pc' = [pc EXCEPT ![w] = "idle"]
    /\ req' = [req EXCEPT ![w] = NoReq]
    /\ resp' = [resp EXCEPT ![w] = NoResp]
    /\ snap' = [snap EXCEPT ![w] = NoSnap]
    /\ UNCHANGED <<users, configs, versions, audit, lost, tokens, sess>>
\* the response is sent and the application context of the request torn down, which
\* removes the session (shutdown_session of Flask-SQLAlchemy)
Teardown(w) ==
    /\ pc[w] = "done"
    /\ pc' = [pc EXCEPT ![w] = "idle"]
    /\ req' = [req EXCEPT ![w] = NoReq]
    /\ resp' = [resp EXCEPT ![w] = NoResp]
    /\ snap' = [snap EXCEPT ![w] = NoSnap]
    /\ sess' = [sess EXCEPT ![w] = NoSess]
    /\ UNCHANGED <<users, configs, versions, audit, lost, tokens>>

Step(w) ==
    \/ register(w, RegisterBodies)
    \/ login(w, LoginBodies)
    \/ refresh(w)
    \/ logout(w)
    \/ create_configuration(w, CreateBodies)
    \/ get_configuration(w)
    \/ update_configuration(w, Patches)
    \/ delete_configuration(w)
    \/ get_configuration_versions(w)
    \/ get_configuration_version(w)
    \/ create_from_template(w)
    \/ Commit(w)
    \/ StoreFailure(w)
    \/ AuditLog_log(w)
    \/ Teardown(w)

\* an account is deactivated in the store (users.is_active; no route writes it), between
\* two requests
Deactivate(u) ==
    /\ \A w \in Workers : pc[w] = "idle"
    /\ u \in DOMAIN users
    /\ users[u].is_active
    /\ users' = [users EXCEPT ![u].is_active = FALSE]
    /\ UNCHANGED <<configs, versions, audit, lost, tokens, pc, req, sess, resp, snap>>

\* requests handled one at a time
Next == Step(1)
Spec == Init /\ [][Next]_vars

\* concurrent workers: one serves registrations, logins and creations, and every
\* worker serves updates
\* ------------------------------------------------------------ the listing
DefaultPerPage == 20
MaxPerPage == 100
Min(a, b) == IF a <= b THEN a ELSE b
\* column.ilike('%t%') for a t without wildcards: t occurs in the column, letter case
\* aside; a NULL column matches nothing
Substring(t, s) ==
    \E i \in 0..(Len(s) - Len(t)) : SubSeq(s, i + 1, i + Len(t)) = t
ilike(column, t) == column # None /\ Substring(Lower(t), Lower(The(column)))
\* a variant of the query that leaves the owner filter out
MatchesFilters(user_id, config_id, q) ==
    LET c == configs[config_id]
        search == Strip(OrEmpty(q.search))
        tags == Strip(OrEmpty(q.tags))
        tag_list == StripAll(Split(tags))
    IN /\ Truthy(q.config_type) => c.config_type = The(q.config_type)
       /\ q.is_template # None =>
              c.is_template = (Lower(The(q.is_template)) = <<"t","r","u","e">>)
       /\ search # <<>> => ilike(Some(c.name), search) \/ ilike(Some(c.description), search)
       /\ tags # <<>> => \E i \in DOMAIN tag_list : ilike(c.tags, tag_list[i])
\* list_configurations: the query built from the caller and the filter parameters
Matches(user_id, config_id, q) ==
    LET c == configs[config_id]
        search == Strip(OrEmpty(q.search))
        tags == Strip(OrEmpty(q.tags))
        tag_list == StripAll(Split(tags))
    IN /\ Owns(user_id, config_id)
       /\ Truthy(q.config_type) => c.config_type = The(q.config_type)
       /\ q.is_template # None =>
              c.is_template = (Lower(The(q.is_template)) = <<"t","r","u","e">>)
       /\ search # <<>> => ilike(Some(c.name), search) \/ ilike(Some(c.description), search)
       /\ tags # <<>> => \E i \in DOMAIN tag_list : ilike(c.tags, tag_list[i])
\* order_by(updated_at.desc()): the store keeps no clock here, so every order of the
\* selected rows is a possible result
Orders(ids) ==
    {f \in [1..Cardinality(ids) -> ids] : \A i, j \in DOMAIN f : i # j => f[i] # f[j]}
\* request.args.get('page', 1, type=int)
PageOf(q) == IF q.page = None THEN 1 ELSE The(q.page)
\* min(request.args.get('per_page', 20, type=int), 100)
PerPageOf(q) ==
    Min(IF q.per_page = None THEN DefaultPerPage ELSE The(q.per_page), MaxPerPage)
\* query.paginate(page, per_page, error_out=False), for page >= 1 and per_page >= 1
Paginate(rows, page, per_page) ==
    IF (page - 1) * per_page >= Len(rows) THEN <<>>
    ELSE SubSeq(rows, (page - 1) * per_page + 1, Min(page * per_page, Len(rows)))
\* a variant of the response that rounds the number of pages down
PaginatedFloor(items, page, per_page, total) ==
    LET total_pages == IF per_page > 0 THEN total \div per_page ELSE 0
    IN success_response(
           Some([items |-> items,
                 pagination |-> [page |-> page, per_page |-> per_page, total |-> total,
                                 total_pages |-> total_pages,
                                 has_next |-> page < total_pages, has_prev |-> page > 1]]),
           "", 200)
paginated_response(items, page, per_page, total) ==
    LET total_pages == IF per_page > 0 THEN (total + per_page - 1) \div per_page ELSE 0
    IN success_response(
           Some([items |-> items,
                 pagination |-> [page |-> page, per_page |-> per_page, total |-> total,
                                 total_pages |-> total_pages,
                                 has_next |-> page < total_pages, has_prev |-> page > 1]]),
           "", 200)
\* [config.to_dict(include_data=False) for config in pagination.items]
ListItems(ids) == [i \in DOMAIN ids |-> to_dict(ids[i], configs[ids[i]], FALSE)]
\* list_configurations: the possible responses
ListOutcomes(user_id, q) ==
    LET page == PageOf(q)
        per_page == PerPageOf(q)
        selected == {id \in DOMAIN configs : Matches(user_id, id, q)}
    IN {paginated_response(ListItems(Paginate(rows, page, per_page)),
                           page, per_page, Cardinality(selected)) : rows \in Orders(selected)}

\* GET /api/configs
list_configurations(w, queries) ==
    \E tok \in AccessTokens, q \in queries : \E r \in ListOutcomes(Identity(tok), q) :
        /\ Arrives(w)
        /\ Respond(w, r, [Request("list", Identity(tok), 0, 0, NoBody) EXCEPT !.query = q])

\* the query strings: every combination of a page, a page size and the four filters
Queries ==
    [page : {None, Some(2)},
     per_page : {None, Some(1)},
     config_type : {None, Some(ipsec)},
     is_template : {None, Some(<<"T","r","u","e">>)},
     search : {None, Some(<<" ", "N">>)},
     tags : {None, Some(<<"U", ",", "z">>)}]
    \cup {[NoQuery EXCEPT !.per_page = Some(200)],
          [NoQuery EXCEPT !.is_template = Some(<<"n","o">>), !.search = Some(<<"D">>)]}
TwoUsers ==
    {Creds(alice, alice_mail, good_password), Creds(<<" ">> \o bob, bob_mail, good_password)}
TwoLogins ==
    {[NoBody EXCEPT !.username = Some(alice), !.password = Some(good_password)],
     [NoBody EXCEPT !.username = Some(bob), !.password = Some(good_password)]}
Records == {body \in CreateBodies : "s" \in DOMAIN CreateOutcome(1, body)}
NextList ==
    \/ register(1, TwoUsers)
    \/ login(1, TwoLogins)
    \/ create_configuration(1, Records)
    \/ list_configurations(1, Queries)
    \/ Commit(1)
    \/ StoreFailure(1)
    \/ AuditLog_log(1)
    \/ Teardown(1)
SpecList == Init /\ [][NextList]_vars

\* ------------------------------------------------------------ the validators
Digits == <<"0","1","2","3","4","5","6","7","8","9">>
\* f"{n}": the decimal text of an integer
RECURSIVE FormatNat(_)
FormatNat(n) == IF n < 10 THEN <<Digits[n + 1]>> ELSE FormatNat(n \div 10) \o <<Digits[(n % 10) + 1]>>
Format(n) == IF n < 0 THEN <<"-">> \o FormatNat(0 - n) ELSE FormatNat(n)
DigitValue(c) == CHOOSE d \in 0..9 : Digits[d + 1] = c
RECURSIVE DigitsValue(_)
DigitsValue(s) ==
    IF s = <<>> THEN 0 ELSE DigitsValue(SubSeq(s, 1, Len(s) - 1)) * 10 + DigitValue(s[Len(s)])
\* int(s) of a text: surrounding blanks, one sign, digits with single underscores between
\* them; None stands for ValueError
int(s) ==
    LET t == Strip(s)
        signed == t # <<>> /\ t[1] \in {"+", "-"}
        body == IF signed THEN Tail(t) ELSE t
        wellformed ==
            /\ body # <<>>
            /\ \A i \in DOMAIN body : IsDigit(body[i]) \/ body[i] = "_"
            /\ IsDigit(body[1]) /\ IsDigit(body[Len(body)])
            /\ \A i \in 1..(Len(body) - 1) : ~(body[i] = "_" /\ body[i + 1] = "_")
        value == DigitsValue(SelectSeq(body, IsDigit))
    IN IF ~wellformed THEN None
       ELSE Some(IF signed /\ t[1] = "-" THEN 0 - value ELSE value)
\* what a validator call gives: the pair it returns, or the exception it raises
Returns(valid, error) == [valid |-> valid, error |-> error, raised |-> ""]
Raises(exception) == [valid |-> FALSE, error |-> None, raised |-> exception]
MinPort == 1
MaxPort == 65535
\* validate_port
validate_port(port) ==
    IF port = <<>> THEN Returns(TRUE, None)
    ELSE IF int(port) = None THEN Returns(FALSE, Some(Lit("Invalid port number: ") \o port))
    ELSE IF MinPort <= The(int(port)) /\ The(int(port)) <= MaxPort THEN Returns(TRUE, None)
    ELSE Returns(FALSE, Some(Lit("Port must be between 1 and 65535: ") \o port))
\* str.split('-')
RECURSIVE SplitOn(_, _)
SplitOn(s, sep) ==
    IF \A i \in DOMAIN s : s[i] # sep THEN <<s>>
    ELSE LET i == CHOOSE j \in DOMAIN s : s[j] = sep /\ \A k \in 1..(j - 1) : s[k] # sep
         IN <<SubSeq(s, 1, i - 1)>> \o SplitOn(SubSeq(s, i + 1, Len(s)), sep)
\* a variant of the range check that wants the start below the end
PortRangeStrict(port_range_str) ==
    LET parts == SplitOn(port_range_str, "-")
    IN IF port_range_str = <<>> THEN Returns(TRUE, None)
       ELSE IF Len(parts) = 1 THEN validate_port(port_range_str)
       ELSE IF Len(parts) # 2
       THEN Returns(FALSE, Some(Lit("Invalid port range format: ") \o port_range_str))
       ELSE IF ~validate_port(parts[1]).valid THEN validate_port(parts[1])
       ELSE IF ~validate_port(parts[2]).valid THEN validate_port(parts[2])
       ELSE IF int(parts[1]) = None \/ int(parts[2]) = None THEN Raises("ValueError")
       ELSE IF The(int(parts[1])) >= The(int(parts[2]))
       THEN Returns(FALSE, Some(Lit("Port range start must be less than or equal to end: ")
                                \o port_range_str))
       ELSE Returns(TRUE, None)
\* validate_port_range
validate_port_range(port_range_str) ==
    LET parts == SplitOn(port_range_str, "-")
    IN IF port_range_str = <<>> THEN Returns(TRUE, None)
       ELSE IF Len(parts) = 1 THEN validate_port(port_range_str)
       ELSE IF Len(parts) # 2
       THEN Returns(FALSE, Some(Lit("Invalid port range format: ") \o port_range_str))
       ELSE IF ~validate_port(parts[1]).valid THEN validate_port(parts[1])
       ELSE IF ~validate_port(parts[2]).valid THEN validate_port(parts[2])
       ELSE IF int(parts[1]) = None \/ int(parts[2]) = None THEN Raises("ValueError")
       ELSE IF The(int(parts[1])) > The(int(parts[2]))
       THEN Returns(FALSE, Some(Lit("Port range start must be less than or equal to end: ")
                                \o port_range_str))
       ELSE Returns(TRUE, None)

\* the texts the range validator is given: every text of up to MaxPortLen characters of
\* PortChars, and the range "a-b" of every two of PortNumbers
MaxPortLen == 4
PortChars == {"0", "7", "-", "a", "+", "_", " "}
PortNumbers == {0 - 1, 0, 1, 2, 9, 10, 80, 443, 65534, 65535, 65536, 100000}
PortTexts ==
    UNION {[1..n -> PortChars] : n \in 0..MaxPortLen}
    \cup {Format(a) \o <<"-">> \o Format(b) : a, b \in PortNumbers}
\* a call of validate_port_range; the worker keeps the argument and the result
port_range(w) ==
    \E s \in PortTexts :
        /\ Arrives(w)
        /\ Respond(w, [NoResp EXCEPT !.data = Some(validate_port_range(s))],
                   [Request("port_range", 0, 0, 0, NoBody) EXCEPT !.text = s])
NextPorts == port_range(1) \/ Teardown(1)
SpecPorts == Init /\ [][NextPorts]_vars

\* the tag lists the setter is given: up to MaxTags tags of up to MaxTagChars characters
MaxTags == 2
MaxTagChars == 2
TagChars == {"a", "b", " ", ","}
Tags == UNION {[1..n -> TagChars] : n \in 0..MaxTagChars}
TagLists == UNION {[1..n -> Tags] : n \in 0..MaxTags}
\* config.set_tags_list(l) followed by config.get_tags_list(); the worker keeps the list
\* and the result
tags_round_trip(w) ==
    \E l \in TagLists :
        /\ Arrives(w)
        /\ Respond(w, [NoResp EXCEPT !.data = Some(get_tags_list(set_tags_list(l)))],
                   [Request("tags", 0, 0, 0, [NoBody EXCEPT !.tags = Some(TagList(l))])
                        EXCEPT !.text = The(set_tags_list(l))])
NextTags == tags_round_trip(1) \/ Teardown(1)
SpecTags == Init /\ [][NextTags]_vars

\* the pagination of list_configurations applied to a query that selects the rows 1..T:
\* the page holds row numbers in place of the records
MaxRows == 250
MaxPage == 4
RowCounts == {0, 1, 9, 10, 25, 100, 101, MaxRows}
PageSizes == {None, Some(1), Some(10), Some(100), Some(101), Some(200)}
paginate(w) ==
    \E T \in RowCounts, k \in 1..MaxPage, p \in PageSizes :
        LET q == [NoQuery EXCEPT !.page = Some(k), !.per_page = p]
            rows == [i \in 1..T |-> i]
        IN /\ Arrives(w)
           /\ Respond(w, paginated_response(Paginate(rows, PageOf(q), PerPageOf(q)),
                                            PageOf(q), PerPageOf(q), T),
                      [Request("paginate", 0, 0, T, NoBody) EXCEPT !.query = q])
NextPaging == paginate(1) \/ Teardown(1)
SpecPaging == Init /\ [][NextPaging]_vars

\* ------------------------------------------------- templates and admin routes
\* list_templates: every template of every owner, in any order (updated_at is not kept)
TemplatesOutcomes ==
    {success_response(Some(ListItems(rows)), "", 200) :
        rows \in Orders({id \in DOMAIN configs : configs[id].is_template})}
\* GET /api/templates
list_templates(w) ==
    \E tok \in AccessTokens :
        \E r \in IF "templates" \in RegisteredBlueprints THEN TemplatesOutcomes ELSE {NoRoute} :
            /\ Arrives(w)
            /\ Respond(w, r, Request("list_templates", Identity(tok), 0, 0, NoBody))

\* admin_required: the answer to a caller who is missing or not an administrator
AdminDenied ==
    [status |-> 403, error |-> Lit("Admin privileges required"),
     message |-> "You do not have permission to access this resource",
     data |-> None, errors |-> {}]
\* admin_required: the wrapped handler runs only for a stored user with is_admin set
admin_required(user_id, outcome) ==
    IF user_id \notin DOMAIN users \/ ~users[user_id].is_admin THEN AdminDenied ELSE outcome
\* list_audit_logs without filter parameters: the first page holds every row
AuditLogsOutcome == success_response(Some(audit), "", 200)
\* export_audit_logs without filter parameters: the CSV of every row
ExportOutcome ==
    [status |-> 200, error |-> <<>>, message |-> "text/csv", data |-> Some(audit),
     errors |-> {}]
\* GET /api/admin/audit-logs
list_audit_logs(w) ==
    \E tok \in AccessTokens :
        /\ Arrives(w)
        /\ Respond(w, IF "admin" \in RegisteredBlueprints
                      THEN admin_required(Identity(tok), AuditLogsOutcome) ELSE NoRoute,
                   Request("list_audit_logs", Identity(tok), 0, 0, NoBody))
\* GET /api/admin/audit-logs/export
export_audit_logs(w) ==
    \E tok \in AccessTokens :
        /\ Arrives(w)
        /\ Respond(w, IF "admin" \in RegisteredBlueprints
                      THEN admin_required(Identity(tok), ExportOutcome) ELSE NoRoute,
                   Request("export_audit_logs", Identity(tok), 0, 0, NoBody))
NextRoutes ==
    \/ register(1, TwoUsers)
    \/ login(1, TwoLogins)
    \/ create_configuration(1, Records)
    \/ list_templates(1)
    \/ list_audit_logs(1)
    \/ export_audit_logs(1)
    \/ Commit(1)
    \/ StoreFailure(1)
    \/ AuditLog_log(1)
    \/ Teardown(1)
SpecRoutes == Init /\ [][NextRoutes]_vars

DataPatches == {body \in Patches : Has(body, "data")}
OneUser == {Creds(alice, alice_mail, good_password)}
OneLogin == {[NoBody EXCEPT !.username = Some(alice), !.password = Some(good_password)]}
OneRecord == {body \in CreateBodies : body.tags # None /\ body.config_type = Some(ipsec)}
Write(w) ==
    \/ update_configuration(w, DataPatches)
    \/ Commit(w)
    \/ StoreFailure(w)
    \/ AuditLog_log(w)
    \/ Teardown(w)
Setup(w) ==
    \/ register(w, OneUser)
    \/ login(w, OneLogin)
    \/ create_configuration(w, OneRecord)
NextConcurrent == Setup(1) \/ \E w \in Workers : Write(w)
\* creates and updates whose name is blank, empty or plain
NameBodies ==
    {[NoBody EXCEPT !.name = Some(<<" ">>), !.config_type = Some(ipsec), !.data = Some(D1)],
     [NoBody EXCEPT !.name = Some(<<"n">>), !.config_type = Some(ipsec), !.data = Some(D1)],
     [NoBody EXCEPT !.name = Some(<<>>), !.config_type = Some(ipsec), !.data = Some(D1)]}
NamePatches ==
    {[NoBody EXCEPT !.name = Some(<<>>)],
     [NoBody EXCEPT !.name = Some(<<" ", " ">>), !.data = Some(D2)],
     [NoBody EXCEPT !.name = Some(<<"z">>)]}
NextNames ==
    \/ register(1, OneUser)
    \/ login(1, OneLogin)
    \/ create_configuration(1, NameBodies)
    \/ update_configuration(1, NamePatches)
    \/ Commit(1)
    \/ StoreFailure(1)
    \/ AuditLog_log(1)
    \/ Teardown(1)
SpecNames == Init /\ [][NextNames]_vars
SpecConcurrent == Init /\ [][NextConcurrent]_vars

\* accounts: registrations that collide on one field or on both, logins by username
\* and by e-mail, token refreshes, logouts and deactivations, one request at a time
caro == <<"c","a","r","o">>
AccountBodies ==
    RegisterBodies \cup
    {Creds(alice, <<" ","B","@","x",".","i","o">>, good_password),
     Creds(caro, <<"a","@","x",".","i","o">>, good_password),
     Creds(caro, <<"c","@","x">>, good_password),
     Creds(caro, <<"c","@","x",".","i","o">>, <<"p","a","s","s","w","0","r","d">>),
     [NoBody EXCEPT !.username = Some(caro), !.password = Some(good_password)]}
AccountLogins ==
    LoginBodies \cup
    {[NoBody EXCEPT !.username = Some(<<" ">> \o alice_mail), !.password = Some(good_password)],
     [NoBody EXCEPT !.username = Some(bob), !.password = Some(weak_password)],
     [NoBody EXCEPT !.username = Some(<<"A">> \o Tail(alice)), !.password = Some(good_password)]}
NextAccounts ==
    \/ register(1, AccountBodies)
    \/ login(1, AccountLogins)
    \/ refresh(1)
    \/ logout(1)
    \/ \E u \in UserIds : Deactivate(u)
    \/ Commit(1)
    \/ StoreFailure(1)
    \/ AuditLog_log(1)
    \/ Teardown(1)
SpecAccounts == Init /\ [][NextAccounts]_vars

TypeOK ==
    /\ pc \in [Workers -> {"idle", "commit", "audit", "done"}]
    /\ BagCardinality(audit) + lost <= MaxAudit
    /\ DOMAIN configs \subseteq ConfigIds
    /\ Len(users) <= MaxUsers

\* -------------------------------------------------------------- properties
\* the worker has answered a request of one of the kinds
Finished(w, kinds) == pc[w] = "done" /\ req[w].kind \in kinds
Succeeded(w, kinds) == Finished(w, kinds) /\ resp[w].status \in {200, 201}
VersionNumbers(rows) == {rows[i].version : i \in DOMAIN rows}
\* the audit entries written since the request of the worker arrived
Added(w) == audit (-) snap[w].audit
\* the request of the worker is for a record that existed, owned by another user
NonOwner(w) ==
    /\ req[w].id \in DOMAIN snap[w].configs
    /\ snap[w].configs[req[w].id].user_id # req[w].caller

\* C1: with requests handled one at a time, the version numbers of every record are
\* exactly 1..n, n being the number of its versions, and no (config_id, version)
\* pair occurs twice.
VersionsContiguous ==
    \A c \in ConfigIds :
        /\ VersionNumbers(versions[c]) = 1..Len(versions[c])
        /\ \A i, j \in DOMAIN versions[c] :
               versions[c][i].version = versions[c][j].version => i = j
VersionsContiguousWitness ==
    \E c \in DOMAIN configs : Len(versions[c]) = MaxVersion

\* C2: a successful update whose patch has a data key appends exactly one version
\* (number one greater than the previous maximum, data the patch's data, the given
\* change_description or 'Configuration updated') and replaces the record's data;
\* one whose patch has no data key leaves data and versions unchanged; the data_changed
\* flag of its audit entry tells which.
UpdateAppendsOneVersion ==
    \A w \in Workers : Succeeded(w, {"update"}) =>
        LET id == req[w].id
            body == req[w].body
            before == snap[w].versions[id]
            entry == Entry(req[w].caller, "update", "configuration", Some(id),
                           [NoDetails EXCEPT !.name = Some(configs[id].name),
                                             !.data_changed = Some(body.data # None)])
        IN /\ IF body.data # None
              THEN /\ versions[id] =
                        Append(before,
                               [version |-> Max(VersionNumbers(before)) + 1,
                                data_json |-> <<The(body.data)>>,
                                change_description |->
                                    IF body.change_description # None
                                    THEN The(body.change_description)
                                    ELSE <<"Configuration updated">>,
                                created_by |-> req[w].caller])
                   /\ Loads(configs[id].data_json) = The(body.data)
              ELSE /\ versions[id] = before
                   /\ configs[id].data_json = snap[w].configs[id].data_json
           /\ Added(w) = SetToBag({entry})
UpdateAppendsOneVersionWitness ==
    \E w \in Workers :
        /\ Succeeded(w, {"update"})
        /\ req[w].body.data # None
        /\ req[w].body.change_description # None
        /\ Len(versions[req[w].id]) = Len(snap[w].versions[req[w].id]) + 1

\* C3: the writes of a request are atomic: whether a create, instantiate, update or
\* delete succeeded or failed at any step, a record exists exactly when it has at least
\* one version, and a successful create leaves exactly version 1, holding the record's data.
WritesAtomic ==
    /\ \A c \in ConfigIds : c \in DOMAIN configs <=> versions[c] # <<>>
    /\ \A w \in Workers : Succeeded(w, {"create", "create_from_template"}) =>
           LET id == The(resp[w].data).id
           IN /\ Len(versions[id]) = 1
              /\ versions[id][1].version = 1
              /\ versions[id][1].data_json = configs[id].data_json
              /\ req[w].kind = "create" => Loads(configs[id].data_json) = The(req[w].body.data)
WritesAtomicWitness ==
    \E w \in Workers :
        /\ Finished(w, {"create"})
        /\ resp[w].status = 500
        /\ configs = snap[w].configs
        /\ versions = snap[w].versions

\* C4: of two interleaved data updates of one record that both computed the same next
\* version number, at most one commits; the other is answered with an error and adds
\* no version; no (config_id, version) pair ever occurs twice.
ConcurrentUpdatesStayUnique ==
    /\ \A c \in ConfigIds : \A i, j \in DOMAIN versions[c] :
           versions[c][i].version = versions[c][j].version => i = j
    /\ \A w, v \in Workers :
           (/\ w # v
            /\ Finished(w, {"update"}) /\ Finished(v, {"update"})
            /\ req[w].id = req[v].id
            /\ req[w].id \in DOMAIN snap[w].configs
            /\ req[w].body.data # None /\ req[v].body.data # None
            /\ snap[w].versions = snap[v].versions)
           => /\ ~(resp[w].status = 200 /\ resp[v].status = 200)
              /\ resp[w].status # 200 => resp[w].status = 500 /\ resp[w].error # <<>>
              /\ Len(versions[req[w].id]) <= Len(snap[w].versions[req[w].id]) + 1
              /\ resp[w].status = 200 =>
                     Loads(configs[req[w].id].data_json) = The(req[w].body.data)
ConcurrentUpdatesStayUniqueWitness ==
    \E w, v \in Workers :
        /\ w # v
        /\ Finished(w, {"update"}) /\ Finished(v, {"update"})
        /\ req[w].id = req[v].id
        /\ req[w].body.data # None /\ req[v].body.data # None
        /\ snap[w].versions = snap[v].versions
        /\ resp[w].status = 200 /\ resp[v].status = 500
        /\ lost = 0

\* C5: a get, update or delete by an authenticated caller, with any request body, is
\* answered 404 when no record has the id and 403 when the record has another owner,
\* and the answer to a non-owner holds no field of the record.
MissingThenForbidden ==
    \A w \in Workers : Finished(w, {"get", "update", "delete"}) =>
        /\ req[w].id \notin DOMAIN snap[w].configs => resp[w].status = 404
        /\ NonOwner(w) => resp[w].status = 403 /\ resp[w].data = None

\* C6: a get, update, delete, list_versions or get_version by a caller who is not the
\* owner changes neither the record nor its versions and writes no audit entry.
NonOwnerChangesNothing ==
    \A w \in Workers :
        (Finished(w, {"get", "update", "delete", "list_versions", "get_version"})
         /\ NonOwner(w))
        => /\ configs = snap[w].configs
           /\ versions = snap[w].versions
           /\ audit = snap[w].audit
           /\ resp[w].status \in {400, 403}
NonOwnerChangesNothingWitness ==
    \E w \in Workers :
        /\ Finished(w, {"update"})
        /\ NonOwner(w)
        /\ req[w].body.data # None

\* C7: a successful update changes, among name, description, tags, is_template and
\* data, only the fields its patch holds; the record's id, owner and config_type stay.
UpdateChangesOnlyPatched ==
    \A w \in Workers : Succeeded(w, {"update"}) =>
        /\ req[w].id \in DOMAIN configs
        /\ LET old == snap[w].configs[req[w].id]
               new == configs[req[w].id]
               body == req[w].body
           IN /\ new.user_id = old.user_id
              /\ new.config_type = old.config_type
              /\ body.name = None => new.name = old.name
              /\ body.description = None => new.description = old.description
              /\ body.tags = None => new.tags = old.tags
              /\ body.is_template = None => new.is_template = old.is_template
              /\ body.data = None => new.data_json = old.data_json
UpdateChangesOnlyPatchedWitness ==
    \E w \in Workers :
        /\ Succeeded(w, {"update"})
        /\ req[w].body.name # None
        /\ req[w].body.description = None
        /\ configs[req[w].id].name # snap[w].configs[req[w].id].name
        /\ configs[req[w].id].description # <<>>

\* C8: a successful delete by the owner removes the record and all its versions
\* together and writes exactly one audit entry (action delete, the record's id, the name
\* it had); a get of that id issued next is answered 404.
DeleteRemovesAll ==
    \A w \in Workers : Succeeded(w, {"delete"}) =>
        LET id == req[w].id
            entry == Entry(req[w].caller, "delete", "configuration", Some(id),
                           [NoDetails EXCEPT !.name = Some(snap[w].configs[id].name)])
        IN /\ snap[w].configs[id].user_id = req[w].caller
           /\ id \notin DOMAIN configs
           /\ versions[id] = <<>>
           /\ Added(w) = SetToBag({entry})
           /\ \A u \in DOMAIN users : GetOutcome(u, id).status = 404
DeleteRemovesAllWitness ==
    \E w \in Workers :
        /\ Succeeded(w, {"delete"})
        /\ Len(snap[w].versions[req[w].id]) >= 2

\* the user an answered request acted for: the caller, or the user the answer names
Actor(w) ==
    IF req[w].kind = "register" THEN The(resp[w].data).id
    ELSE IF req[w].kind = "login" THEN The(resp[w].data).user.id
    ELSE req[w].caller
\* the users of the snapshot that a login body names
Named(w) ==
    LET identifier == Strip(OrEmpty(req[w].body.username))
    IN {id \in DOMAIN snap[w].users :
           \/ snap[w].users[id].username = identifier
           \/ snap[w].users[id].email = Lower(identifier)}

AuditAppendOnly == [][audit \sqsubseteq audit']_vars
AuditAppendOnlyWitness ==
    \E w \in Workers :
        /\ Succeeded(w, {"delete"})
        /\ \E e \in BagToSet(audit) : e.action = "create" /\ e.resource_id = Some(req[w].id)

\* C11: a failure of the audit write does not corrupt the visible result of a create,
\* update, delete or instantiate_template: the request is never answered with an error
\* while its mutation stays in the store.
FailedMeansNotPersisted ==
    \A w \in Workers :
        (Finished(w, {"create", "update", "delete", "create_from_template"})
         /\ resp[w].status >= 400)
        => /\ configs = snap[w].configs
           /\ versions = snap[w].versions

\* C19: instantiate_template by any authenticated user on a record with is_template true
\* answers 201 and adds a record owned by the caller, not a template, with the template's
\* config_type, data and tags, its version 1 holding the same data, and an audit entry
\* naming the template, the template and its versions unchanged; on a record that is not
\* a template it answers an error and adds nothing.
TemplateInstantiated ==
    \A w \in Workers :
        (Finished(w, {"create_from_template"}) /\ req[w].id \in DOMAIN snap[w].configs) =>
            LET template == snap[w].configs[req[w].id]
            IN IF template.is_template
               THEN /\ resp[w].status = 201
                    /\ LET id == The(resp[w].data).id
                       IN /\ id \notin DOMAIN snap[w].configs
                          /\ configs[id].user_id = req[w].caller
                          /\ ~configs[id].is_template
                          /\ configs[id].config_type = template.config_type
                          /\ Loads(configs[id].data_json) = Loads(template.data_json)
                          /\ get_tags_list(configs[id].tags) = get_tags_list(template.tags)
                          /\ Len(versions[id]) = 1
                          /\ versions[id][1].version = 1
                          /\ Loads(versions[id][1].data_json) = Loads(template.data_json)
                          /\ \E e \in BagToSet(Added(w)) :
                                 /\ Added(w) = SetToBag({e})
                                 /\ e.details.template_id = Some(req[w].id)
                    /\ configs[req[w].id] = template
                    /\ versions[req[w].id] = snap[w].versions[req[w].id]
               ELSE /\ resp[w].status >= 400
                    /\ configs = snap[w].configs
                    /\ versions = snap[w].versions
                    /\ audit = snap[w].audit

\* the identifier and the password a login body holds, as the handler reads them
Identifier(w) == Strip(OrEmpty(req[w].body.username))
Password(w) == OrEmpty(req[w].body.password)

\* C12: login issues an access and a refresh token only when the identifier (trimmed)
\* equals a stored username or its lower-cased form equals a stored e-mail, the password
\* matches that user's hash and that user is active; in every other case it answers an
\* error and issues no token. Both tokens carry that user's id, as a string, as identity.
LoginIssuesTokens ==
    \A w \in Workers : Finished(w, {"login"}) =>
        LET matched == {id \in Named(w) :
                           /\ snap[w].users[id].password_hash = <<"hash", Password(w)>>
                           /\ snap[w].users[id].is_active}
        IN IF resp[w].status = 200
           THEN \E id \in matched :
                    /\ The(resp[w].data).access_token = [type |-> "access", sub |-> ToString(id)]
                    /\ The(resp[w].data).refresh_token = [type |-> "refresh", sub |-> ToString(id)]
                    /\ tokens = snap[w].tokens \cup {[type |-> "access", sub |-> ToString(id)],
                                                    [type |-> "refresh", sub |-> ToString(id)]}
           ELSE /\ resp[w].status >= 400
                /\ resp[w].data = None
                /\ tokens = snap[w].tokens
LoginIssuesTokensWitness ==
    \E w \in Workers :
        /\ Finished(w, {"login"})
        /\ resp[w].status = 401
        /\ \E id \in Named(w) :
               /\ snap[w].users[id].password_hash = <<"hash", Password(w)>>
               /\ ~snap[w].users[id].is_active
               /\ \E t \in tokens : t.sub = ToString(id)

\* C13: refresh issues a new access token only when the token presented is a refresh
\* token whose identity names a user that exists and is active when the request arrives;
\* otherwise it answers 401 and issues nothing. The new token carries the same identity.
RefreshIssuesToken ==
    \A w \in Workers : Finished(w, {"refresh"}) =>
        IF resp[w].status = 200
        THEN /\ req[w].token = "refresh"
             /\ req[w].caller \in DOMAIN snap[w].users
             /\ snap[w].users[req[w].caller].is_active
             /\ The(resp[w].data).access_token =
                    [type |-> "access", sub |-> ToString(req[w].caller)]
             /\ tokens = snap[w].tokens \cup
                    {[type |-> "access", sub |-> ToString(req[w].caller)]}
        ELSE /\ resp[w].status = 401
             /\ resp[w].data = None
             /\ tokens = snap[w].tokens
RefreshIssuesTokenWitness ==
    \E w \in Workers :
        /\ Finished(w, {"refresh"})
        /\ req[w].token = "refresh"
        /\ resp[w].status = 401
        /\ ~snap[w].users[req[w].caller].is_active

\* C14: a login with a wrong password against an existing account, active or not, gets
\* the same response (401 and message) as a login naming no account; the two differ only
\* in the store, where the former writes one login_failed entry for the account and the
\* latter writes none.
RejectedLoginsAlike ==
    \A w \in Workers :
        (Finished(w, {"login"}) /\ Identifier(w) # <<>> /\ Password(w) # <<>>) =>
            /\ Named(w) = {} =>
                   /\ resp[w] = error_response(<<"Invalid username or password">>, 401)
                   /\ audit = snap[w].audit
            /\ \A id \in Named(w) :
                   snap[w].users[id].password_hash # <<"hash", Password(w)>> =>
                       /\ resp[w] = error_response(<<"Invalid username or password">>, 401)
                       /\ Added(w) = SetToBag({Entry(id, "login_failed", "user", Some(id),
                              [NoDetails EXCEPT !.reason = Some("invalid_password")])})

\* the username and e-mail a register body holds, as the handler reads them
Username(w) == Strip(OrEmpty(req[w].body.username))
Email(w) == Lower(Strip(OrEmpty(req[w].body.email)))
\* the register body passes the required-field and field validation
WellFormed(w) ==
    /\ req[w].body.username \notin {None, Some(<<>>)}
    /\ req[w].body.email \notin {None, Some(<<>>)}
    /\ req[w].body.password \notin {None, Some(<<>>)}
    /\ validate_username(Username(w)) = None
    /\ validate_email(Email(w)) = None
    /\ validate_password(The(req[w].body.password)) = None

ConflictNamesField ==
    \A w \in Workers : (Finished(w, {"register"}) /\ resp[w].status = 409) =>
        IF \E id \in DOMAIN snap[w].users : snap[w].users[id].username = Username(w)
        THEN resp[w].error = <<"Username already exists">>
        ELSE resp[w].error = <<"Email already exists">>

\* C17: field validation is not fail-fast: register validates username, e-mail and
\* password, create validates config_type and tags, and the one 422 response has an entry
\* in its errors map for every field that failed.
AllFieldErrorsReported ==
    \A w \in Workers :
        /\ (Finished(w, {"register"}) /\ resp[w].status = 422) =>
               resp[w].errors =
                   {f \in {"username", "email", "password"} :
                       \/ f = "username" /\ validate_username(Username(w)) # None
                       \/ f = "email" /\ validate_email(Email(w)) # None
                       \/ f = "password" /\ validate_password(The(req[w].body.password)) # None}
        /\ (Finished(w, {"create"}) /\ resp[w].status = 422) =>
               resp[w].errors =
                   {f \in {"config_type", "tags"} :
                       \/ f = "config_type" /\ Strip(The(req[w].body.config_type)) \notin valid_types
                       \/ f = "tags" /\ req[w].body.tags # None
                                     /\ ~validate_tags(The(req[w].body.tags))}
        /\ (Finished(w, {"register", "create"}) /\ resp[w].status # 422) => resp[w].errors = {}
AllFieldErrorsReportedWitness ==
    \E w \in Workers :
        /\ Finished(w, {"create"})
        /\ resp[w].errors = {"config_type", "tags"}

\* C18: create with a missing or empty name, config_type or data answers 400, checked in
\* that order and before any field validation; create with a config_type outside the
\* enumeration or a tag longer than 50 characters answers 422; in each case no record,
\* no version and no audit entry is added.
CreateRejectsBadInput ==
    \A w \in Workers : Finished(w, {"create"}) =>
        LET body == req[w].body
            absent(o) == o \in {None, Some(<<>>)}
            unchanged == /\ configs = snap[w].configs
                         /\ versions = snap[w].versions
                         /\ audit = snap[w].audit
        IN IF body = NoBody THEN resp[w].status = 400 /\ unchanged
           ELSE IF absent(body.name)
           THEN resp[w] = error_response(<<"Configuration name is required">>, 400) /\ unchanged
           ELSE IF absent(body.config_type)
           THEN resp[w] = error_response(<<"Configuration type is required">>, 400) /\ unchanged
           ELSE IF body.data \in {None, Some({})}
           THEN resp[w] = error_response(<<"Configuration data is required">>, 400) /\ unchanged
           ELSE IF \/ Strip(The(body.config_type)) \notin valid_types
                   \/ body.tags # None /\ ~validate_tags(The(body.tags))
           THEN resp[w].status = 422 /\ unchanged
           ELSE resp[w].status \in {201, 500}
CreateRejectsBadInputWitness ==
    \E w \in Workers :
        /\ Finished(w, {"create"})
        /\ resp[w] = error_response(<<"Configuration data is required">>, 400)
        /\ Strip(The(req[w].body.config_type)) \notin valid_types
        /\ DOMAIN configs # {}

\* C20: for every combination of filters and every page, the list of configurations holds
\* only records owned by the caller, and none of its items carries the data payload.
Items(w) == The(resp[w].data).items
ListShowsOnlyOwn ==
    \A w \in Workers : Finished(w, {"list"}) =>
        /\ resp[w].status = 200
        /\ \A i \in DOMAIN Items(w) :
              /\ Items(w)[i].id \in DOMAIN snap[w].configs
              /\ snap[w].configs[Items(w)[i].id].user_id = req[w].caller
              /\ Items(w)[i].user_id = req[w].caller
              /\ Items(w)[i].data = None
        /\ The(resp[w].data).pagination.total <=
               Cardinality({id \in DOMAIN snap[w].configs :
                               snap[w].configs[id].user_id = req[w].caller})
ListShowsOnlyOwnWitness ==
    \E w \in Workers :
        /\ Finished(w, {"list"})
        /\ req[w].query = NoQuery
        /\ \E id \in DOMAIN configs : configs[id].user_id # req[w].caller
        /\ Items(w) = <<>>
ListShowsOwnWitness ==
    \E w \in Workers :
        /\ Finished(w, {"list"})
        /\ req[w].query.page = Some(2) /\ req[w].query.per_page = Some(1)
        /\ Len(Items(w)) = 1

\* C21: listing templates returns to any authenticated caller every record with
\* is_template = true of every owner and no other record, without the data payload, the
\* same for every caller.
TemplatesListed ==
    \A w \in Workers : Finished(w, {"list_templates"}) =>
        /\ resp[w].status = 200
        /\ {The(resp[w].data)[i].id : i \in DOMAIN The(resp[w].data)} =
               {id \in DOMAIN snap[w].configs : snap[w].configs[id].is_template}
        /\ \A i \in DOMAIN The(resp[w].data) : The(resp[w].data)[i].data = None

\* C22: the audit-log query and export run only for a caller whose token is valid and
\* whose user is stored with the admin flag; a valid token of a non-admin or missing user
\* is answered 403 and no audit data is returned.
AdminGuarded ==
    \A w \in Workers :
        (/\ Finished(w, {"list_audit_logs", "export_audit_logs"})
         /\ \/ req[w].caller \notin DOMAIN snap[w].users
            \/ ~snap[w].users[req[w].caller].is_admin)
        => resp[w].status = 403 /\ resp[w].data = None

\* C23: a listing of T matching records asked for page k >= 1 with per_page p >= 1 uses
\* per_page = min(p, 100) and reports total = T, total_pages = ceil(T / per_page),
\* has_next = (k < total_pages) and has_prev = (k > 1); the page holds
\* min(per_page, max(0, T - (k - 1) * per_page)) items.
PagingNumbers ==
    \A w \in Workers : Finished(w, {"paginate"}) =>
        LET T == req[w].n
            k == The(req[w].query.page)
            p == IF req[w].query.per_page = None THEN 20 ELSE The(req[w].query.per_page)
            per_page == IF p <= 100 THEN p ELSE 100
            pages == CHOOSE n \in 0..T : n * per_page >= T /\ (n = 0 \/ (n - 1) * per_page < T)
            rest == T - (k - 1) * per_page
            held == IF rest <= 0 THEN 0 ELSE IF rest < per_page THEN rest ELSE per_page
            out == The(resp[w].data)
        IN /\ resp[w].status = 200
           /\ out.pagination = [page |-> k, per_page |-> per_page, total |-> T,
                                total_pages |-> pages, has_next |-> k < pages,
                                has_prev |-> k > 1]
           /\ Len(out.items) = held
           /\ \A i \in DOMAIN out.items : out.items[i] = (k - 1) * per_page + i
PagingNumbersWitness ==
    \E w \in Workers :
        /\ Finished(w, {"paginate"})
        /\ req[w].n = 25 /\ req[w].query.page = Some(2) /\ req[w].query.per_page = Some(10)
        /\ Len(The(resp[w].data).items) = 10
        /\ The(resp[w].data).pagination.total_pages = 3
        /\ The(resp[w].data).pagination.has_next
        /\ The(resp[w].data).pagination.has_prev

\* the result of the validator call the worker has finished
Result(w) == The(resp[w].data)
RangeText(a, b) == Format(a) \o <<"-">> \o Format(b)
OrderingMessage(s) ==
    Some(<<"Port range start must be less than or equal to end: ">> \o s)
\* C24 as stated: for 1 <= a <= b <= 65535 the text 'a-b' is accepted with no message,
\* and for every a > b it is rejected with the message that the start must be less than
\* or equal to the end.
PortRangeOrdered ==
    \A w \in Workers : Finished(w, {"port_range"}) =>
        \A a, b \in PortNumbers : req[w].text = RangeText(a, b) =>
            /\ (1 <= a /\ a <= b /\ b <= 65535) => Result(w) = Returns(TRUE, None)
            /\ a > b => Result(w) = Returns(FALSE, OrderingMessage(req[w].text))
\* C24 as amended: the ordering message is given when both ends are ports (1..65535) and
\* a > b; every other a > b is rejected too, with the message of the port rule or of
\* the format.
PortRangeOrderedPorts ==
    \A w \in Workers : Finished(w, {"port_range"}) =>
        \A a, b \in PortNumbers : req[w].text = RangeText(a, b) =>
            /\ (1 <= a /\ a <= b /\ b <= 65535) => Result(w) = Returns(TRUE, None)
            /\ (1 <= b /\ b < a /\ a <= 65535) =>
                   Result(w) = Returns(FALSE, OrderingMessage(req[w].text))
            /\ a > b => ~Result(w).valid /\ Result(w).error # None /\ Result(w).raised = ""
PortRangeOrderedPortsWitness ==
    \E w \in Workers :
        /\ Finished(w, {"port_range"})
        /\ req[w].text = <<"6","5","5","3","5","-","4","4","3">>
        /\ Result(w) = Returns(FALSE, OrderingMessage(req[w].text))

\* C25: validate_port_range is total: for every text it returns a pair (valid, message
\* or none) and never raises, also when one side of the single hyphen is empty.
PortRangeTotal ==
    \A w \in Workers : Finished(w, {"port_range"}) => Result(w).raised = ""

\* the list given to set_tags_list by the call the worker has finished
Given(w) == The(req[w].body.tags).list
CommaFree(l) == \A i \in DOMAIN l : \A j \in DOMAIN l[i] : l[i][j] # ","
\* C26 as stated: for every list of tags none of which contains a comma, set_tags_list
\* followed by get_tags_list returns the same list.
TagsRoundTrip ==
    \A w \in Workers : (Finished(w, {"tags"}) /\ CommaFree(Given(w))) =>
        The(resp[w].data) = Given(w)
\* C26 as amended: the round trip returns the same list when, besides holding no comma,
\* no tag is empty or starts or ends with white space.
TagsRoundTripTrimmed ==
    \A w \in Workers :
        (/\ Finished(w, {"tags"})
         /\ CommaFree(Given(w))
         /\ \A i \in DOMAIN Given(w) :
               /\ Given(w)[i] # <<>>
               /\ Given(w)[i][1] # " " /\ Given(w)[i][Len(Given(w)[i])] # " ")
        => The(resp[w].data) = Given(w)
TagsRoundTripTrimmedWitness ==
    \E w \in Workers :
        /\ Finished(w, {"tags"})
        /\ Given(w) = << <<"a">>, <<"b", "a">> >>
        /\ req[w].text = <<"a", ",", "b", "a">>
        /\ The(resp[w].data) = Given(w)

\* C27: a request answered 400, 401, 403, 404, 409 or 422 leaves every stored user,
\* record and version as it was, and nothing it assigned is pending for a later request;
\* so an update rejected with 422 for its tags does not change the stored name or
\* description its patch also carries.
ErrorStatus == {400, 401, 403, 404, 409, 422}
NamesNonEmpty == \A id \in DOMAIN configs : configs[id].name # <<>>

\* the version of a record with the highest number
Latest(id) ==
    CHOOSE v \in Range(versions[id]) : \A u \in Range(versions[id]) : u.version <= v.version
\* C29: with requests handled one at a time, the current data of every record equals the
\* data stored in its highest-numbered version.
DataMatchesLatestVersion ==
    \A id \in DOMAIN configs :
        /\ versions[id] # <<>>
        /\ Loads(configs[id].data_json) = Loads(Latest(id).data_json)
DataMatchesLatestVersionWitness ==
    \E w \in Workers :
        /\ Succeeded(w, {"update"})
        /\ Has(req[w].body, "data")
        /\ Len(versions[req[w].id]) >= 2
        /\ configs[req[w].id].data_json # snap[w].configs[req[w].id].data_json
        /\ configs[req[w].id].data_json = Latest(req[w].id).data_json

\* C30: a version, once written, keeps its number, data, change description and creator
\* in every later state in which its record exists, and a version disappears only when
\* its record is deleted.
IsPrefix(s, t) == Len(s) <= Len(t) /\ SubSeq(t, 1, Len(s)) = s
VersionsImmutable ==
    [][\A id \in ConfigIds :
          \/ IsPrefix(versions[id], versions'[id])
          \/ id \in DOMAIN configs /\ id \notin DOMAIN configs']_vars
VersionsImmutableWitness ==
    \E w \in Workers :
        /\ Succeeded(w, {"update"})
        /\ Len(snap[w].versions[req[w].id]) >= 2
        /\ Len(versions[req[w].id]) = Len(snap[w].versions[req[w].id]) + 1
        /\ IsPrefix(snap[w].versions[req[w].id], versions[req[w].id])
        /\ versions[req[w].id][1].data_json # versions[req[w].id][2].data_json

====
